---- MODULE Spec2Model ----
(***************************************************************************)
(* Model of src/input.rs: the buffered byte reader (BufferedInput<N>) and  *)
(* the poll-based multiplexer (TuiInput) that merges the SIGWINCH          *)
(* self-pipe and /dev/tty into one blocking iterator of TuiEvents.         *)
(*                                                                         *)
(* The single thread of the program is followed by pc:                     *)
(*   "idle"   between two calls of TuiInput::next                          *)
(*   "poll"   inside libc::poll (lines 158-173)                            *)
(*   "drain"  resize branch taken, before sigwinch_pipe.read (line 182)    *)
(*   "next"   about to call BufferedInput::next (line 133, or from the     *)
(*            decoder, which pulls continuation bytes from the same reader)*)
(*   "read"   inside File::read of read_and_retry_on_interrupt (line 24)   *)
(*   "panic"  the thread has panicked in next_u8 (line 58)                 *)
(* The environment (terminal, signal handler) runs between these steps.    *)
(***************************************************************************)
EXTENDS Integers, Sequences, FiniteSets, TLC

VARIABLES
    buffer,                 \* BufferedInput.buffer: [u8; N]
    buffer_size,            \* BufferedInput.buffer_size
    buffer_index,           \* BufferedInput.buffer_index
    might_have_more_data,   \* BufferedInput.might_have_more_data
    revents,                \* poll_fds[i].revents & POLLIN, i \in {0, 1}
    pc,                     \* position of the thread (see above)
    dec,                    \* the decoder's Vec of bytes collected so far
    tty,                    \* bytes queued in the terminal device, unread
    sigPipe,                \* marker bytes queued in the SIGWINCH socket
    hup,                    \* the terminal has hung up (reads return 0)
    item,                   \* item returned by the last TuiInput::next
    nCalls,                 \* number of TuiInput::next calls started
    nItems,                 \* history: number of items returned so far
    path,                   \* how the current/last call proceeded
    intr,                   \* EINTR count of the current poll/read
    served,                 \* history: bytes returned by BufferedInput::next
    physRead,               \* history: bytes returned by File::read, in order
    lastRead,               \* history: byte count of the last refill, -1 if none
    fatal,                  \* history: some call has returned an error item
    scen                    \* history: resize+key pending at a wake

vars == <<buffer, buffer_size, buffer_index, might_have_more_data, revents,
          pc, dec, tty, sigPipe, hup, item, nCalls, nItems, path, intr,
          served, physRead, lastRead, fatal, scen>>

\* What the program and its environment hold, without the retry counter.
observable == <<buffer, buffer_size, buffer_index, might_have_more_data,
                revents, pc, dec, tty, sigPipe, hup, item, nCalls, nItems,
                path, served, physRead, lastRead, fatal, scen>>

-----------------------------------------------------------------------------
\* Bounds of the model.

\* Capacity of BufferedInput<N> (the program instantiates it with 1024).
N == 2
\* Notifications that may queue in the SIGWINCH socket.
MaxPending == 2
\* Calls of TuiInput::next the caller makes.
MaxCalls == 3
\* EINTR results one poll or read may see before another result.
MaxIntr == 1

\* Bytes the terminal delivers in a run: one more than the buffer holds.
MaxBytes == N + 1

\* Program constants.
SIGWINCH_PIPE_INDEX == 0
STDIN_INDEX == 1
DRAIN_BUF_LEN == 32

\* Input alphabet: 'a', and the UTF-8 lead byte and a continuation byte of a
\* three-byte character (E2 82 82).
Bytes == {97, 226, 130}
KeySeq == <<226, 130, 130>>
AccentBytes == {97, 195, 130}
AccentSeq == <<195, 130>>

Min(a, b) == IF a < b THEN a ELSE b
Drop(s, k) == SubSeq(s, k + 1, Len(s))
Take(s, k) == SubSeq(s, 1, k)

-----------------------------------------------------------------------------
\* Items and results.

Item(kind, key) == [kind |-> kind, key |-> key]
NoItem == Item("NoItem", <<>>)

\* Option<io::Result<u8>>
SomeOk(b) == [kind |-> "Ok", val |-> b, err |-> "-"]
SomeErr(e) == [kind |-> "Err", val |-> 0, err |-> e]
None == [kind |-> "None", val |-> 0, err |-> "-"]

ErrKinds == {"Interrupted", "Other"}

-----------------------------------------------------------------------------
\* BufferedInput

HasBufferedDataOffByOne == buffer_index + 1 < buffer_size
has_buffered_data == buffer_index < buffer_size

MightHaveBufferedDataNoFlag == has_buffered_data
might_have_buffered_data == might_have_more_data \/ has_buffered_data

\* next_u8: the panic test, the value and the new index.
NextU8Panics(idx, size) == idx >= size
NextU8ValFirst(buf, idx) == buf[1]
NextU8Val(buf, idx) == buf[idx + 1]
NextU8IndexSkip(idx) == idx + 2
NextU8Index(idx) == idx + 1

\* lines 84-86: the fields as reset before the read of a refill.
RefillResetKeepsFlag ==
    [size |-> 0, index |-> 0, more |-> might_have_more_data]
RefillReset == [size |-> 0, index |-> 0, more |-> FALSE]

\* line 91
LikelyMoreNonEmpty(bytes_read) == bytes_read > 0
LikelyMore(bytes_read) == bytes_read = N

\* line 92: the refill always answers Some(Ok(next_u8())).
RefillItemEof(bytes_read) == IF bytes_read = 0 THEN "None" ELSE "SomeOk"
RefillItem(bytes_read) == "SomeOk"

\* read_and_retry_on_interrupt / the poll loop: which error kinds are retried.
RetryNever(kind) == FALSE
Retry(kind) == kind = "Interrupted"

\* File::read into a buffer of capacity N: the chunk sizes it can return now.
\* With nothing queued it blocks, unless the terminal has hung up.
ReadSizes ==
    IF tty # <<>> THEN 1 .. Min(Len(tty), N)
    ELSE IF hup THEN {0} ELSE {}

\* The first k bytes of the buffer overwritten, the rest left as it was.
Fill(buf, chunk) ==
    [i \in 1 .. N |-> IF i <= Len(chunk) THEN chunk[i] ELSE buf[i]]

-----------------------------------------------------------------------------
\* The decoder (termion::event::parse_event, UTF-8 part).

IsAscii(b) == b < 128
Utf8Len(b) ==
    IF b < 128 THEN 1
    ELSE IF b \in 194 .. 223 THEN 2
    ELSE IF b \in 224 .. 239 THEN 3
    ELSE IF b \in 240 .. 244 THEN 4
    ELSE 0
\* str::from_utf8 on the bytes collected so far (one character at most).
Utf8Valid(bs) ==
    /\ Utf8Len(bs[1]) = Len(bs)
    /\ \A i \in 2 .. Len(bs) : bs[i] \in 128 .. 191

\* What is done with the result r of BufferedInput::next: by
\* get_event_from_buffered_input when it is the lead byte (dec empty), by the
\* decoder's loop when it is a continuation byte.  Gives the thread's next
\* position, the decoder's bytes and the item returned, if any.
Consume(r) ==
    IF dec = <<>>
    THEN CASE r.kind = "Ok" ->
                IF IsAscii(r.val)
                THEN [pc |-> "idle", dec |-> <<>>, item |-> Item("KeyEvent", <<r.val>>)]
                ELSE [pc |-> "next", dec |-> <<r.val>>, item |-> item]
           [] r.kind = "Err" ->
                [pc |-> "idle", dec |-> <<>>, item |-> Item("Err", <<r.err>>)]
           [] OTHER ->
                [pc |-> "idle", dec |-> <<>>, item |-> Item("None", <<>>)]
    ELSE CASE r.kind = "Ok" ->
                LET bs == Append(dec, r.val) IN
                IF Utf8Valid(bs)
                THEN [pc |-> "idle", dec |-> <<>>, item |-> Item("KeyEvent", bs)]
                ELSE IF Len(bs) >= 4
                THEN [pc |-> "idle", dec |-> <<>>, item |-> Item("Err", <<"Decode">>)]
                ELSE [pc |-> "next", dec |-> bs, item |-> item]
           [] OTHER ->
                [pc |-> "idle", dec |-> <<>>, item |-> Item("Err", <<"Decode">>)]

-----------------------------------------------------------------------------
\* TuiInput

\* lines 179-186: the branch after a successful poll.
WakeBranchDataFirst(rev) ==
    IF rev[STDIN_INDEX] THEN "next"
    ELSE IF rev[SIGWINCH_PIPE_INDEX] THEN "drain" ELSE "next"
WakeBranch(rev) == IF rev[SIGWINCH_PIPE_INDEX] THEN "drain" ELSE "next"

\* lines 175-186: after the poll loop, an error is returned at once; otherwise
\* the branch on the resize socket is taken.  "idle" stands for the return.
AfterPollIgnoreError(failed, rev) == WakeBranch(rev)
AfterPoll(failed, rev) == IF failed THEN "idle" ELSE WakeBranch(rev)

\* lines 151-155: where a call goes on entry.  It does not look at what the
\* previous call returned.
CallEntryFused(last) ==
    IF last.kind = "Err" THEN "idle"
    ELSE IF might_have_buffered_data THEN "next" ELSE "poll"
CallEntry(last) == IF might_have_buffered_data THEN "next" ELSE "poll"

\* lines 181-182: one read of at most 32 bytes from the SIGWINCH socket.
DrainReadStdin(pipe, t) ==
    [pipe |-> pipe, tty |-> Drop(t, Min(Len(t), DRAIN_BUF_LEN))]
DrainRead(pipe, t) ==
    [pipe |-> pipe - Min(pipe, DRAIN_BUF_LEN), tty |-> t]

-----------------------------------------------------------------------------
\* History of the resize-then-key scenario: "armed" from a wake at which a
\* notification and exactly the bytes of one key are pending, "done" when the
\* first call that consumed bytes after it has returned, "off" otherwise and
\* after any fatal I/O error.
ScenAfterReturn == IF scen = "armed" THEN "done" ELSE scen

\* The items returned so far, after a step that leaves the thread at p.
ItemsAfter(p) == IF p = "idle" THEN nItems + 1 ELSE nItems

\* Whether an error item has been returned, after a step that leaves the
\* thread at p with item it.
FatalAfter(p, it) == fatal \/ (p = "idle" /\ it.kind = "Err")

-----------------------------------------------------------------------------
Init ==
    /\ buffer = [i \in 1 .. N |-> 0]
    /\ buffer_size = 0
    /\ buffer_index = 0
    /\ might_have_more_data = FALSE
    /\ revents = [i \in {SIGWINCH_PIPE_INDEX, STDIN_INDEX} |-> FALSE]
    /\ pc = "idle"
    /\ dec = <<>>
    /\ tty = <<>>
    /\ sigPipe = 0
    /\ hup = FALSE
    /\ item = NoItem
    /\ nCalls = 0
    /\ nItems = 0
    /\ path = "none"
    /\ intr = 0
    /\ served = <<>>
    /\ physRead = <<>>
    /\ lastRead = -1
    /\ fatal = FALSE
    /\ scen = "off"

\* --- environment ---------------------------------------------------------

\* A byte is typed: it queues in the terminal device.
ByteArrives(b) ==
    /\ pc # "panic"
    /\ ~hup
    /\ Len(physRead) + Len(tty) < MaxBytes
    /\ tty' = Append(tty, b)
    /\ UNCHANGED <<buffer, buffer_size, buffer_index, might_have_more_data,
                   revents, pc, dec, sigPipe, hup, item, nCalls, nItems, path,
                   intr, served, physRead, lastRead, fatal, scen>>

\* SIGWINCH is delivered: the registered handler writes one marker byte.
SigWinch(max) ==
    /\ pc # "panic"
    /\ sigPipe < max
    /\ sigPipe' = sigPipe + 1
    /\ UNCHANGED <<buffer, buffer_size, buffer_index, might_have_more_data,
                   revents, pc, dec, tty, hup, item, nCalls, nItems, path,
                   intr, served, physRead, lastRead, fatal, scen>>

\* The terminal goes away: once the queue is empty, reads return 0.
Hangup ==
    /\ pc # "panic"
    /\ ~hup
    /\ hup' = TRUE
    /\ UNCHANGED <<buffer, buffer_size, buffer_index, might_have_more_data,
                   revents, pc, dec, tty, sigPipe, item, nCalls, nItems, path,
                   intr, served, physRead, lastRead, fatal, scen>>

\* --- TuiInput::next ------------------------------------------------------

\* lines 151-154: entry of a call.
TuiNext ==
    /\ pc = "idle"
    /\ nCalls < MaxCalls
    /\ nCalls' = nCalls + 1
    /\ intr' = 0
    /\ LET e == CallEntry(item) IN
         /\ pc' = e
         /\ path' = IF e = "next" THEN "buffered"
                    ELSE IF e = "poll" THEN "waiting" ELSE "ended"
         /\ item' = IF e = "idle" THEN Item("None", <<>>) ELSE item
         /\ nItems' = ItemsAfter(e)
    /\ scen' = IF scen = "done" THEN "off" ELSE scen
    /\ UNCHANGED <<buffer, buffer_size, buffer_index, might_have_more_data,
                   revents, dec, tty, sigPipe, hup, served, physRead,
                   lastRead, fatal>>

\* lines 159-167, 175-177: poll returns -1.
PollErr(kind) ==
    /\ pc = "poll"
    /\ IF Retry(kind)
       THEN /\ intr < MaxIntr
            /\ intr' = intr + 1
            /\ UNCHANGED <<pc, item, nItems, path, fatal, scen>>
       ELSE LET p == AfterPoll(TRUE, revents) IN
            /\ pc' = p
            /\ item' = IF p = "idle" THEN Item("Err", <<kind>>) ELSE item
            /\ nItems' = ItemsAfter(p)
            /\ fatal' = FatalAfter(p, item')
            /\ path' = "pollerr"
            /\ scen' = "off"
            /\ UNCHANGED intr
    /\ UNCHANGED <<buffer, buffer_size, buffer_index, might_have_more_data,
                   revents, dec, tty, sigPipe, hup, nCalls, served, physRead,
                   lastRead>>

\* lines 168-171, 179-186: poll returns with some descriptor ready.
PollWake ==
    /\ pc = "poll"
    /\ sigPipe > 0 \/ tty # <<>> \/ hup
    /\ revents' = [i \in {SIGWINCH_PIPE_INDEX, STDIN_INDEX} |->
                     IF i = SIGWINCH_PIPE_INDEX THEN sigPipe > 0
                     ELSE tty # <<>> \/ hup]
    /\ pc' = AfterPoll(FALSE, revents')
    /\ path' = "woke"
    /\ scen' = IF sigPipe > 0 /\ tty = KeySeq THEN "armed" ELSE scen
    /\ UNCHANGED <<buffer, buffer_size, buffer_index, might_have_more_data,
                   dec, tty, sigPipe, hup, item, nCalls, nItems, intr, served,
                   physRead, lastRead, fatal>>

\* lines 181-183: drain the socket, return WinChEvent.
Drain ==
    /\ pc = "drain"
    /\ LET d == DrainRead(sigPipe, tty) IN
         /\ sigPipe' = d.pipe
         /\ tty' = d.tty
    /\ item' = Item("WinChEvent", <<>>)
    /\ nItems' = nItems + 1
    /\ pc' = "idle"
    /\ UNCHANGED <<buffer, buffer_size, buffer_index, might_have_more_data,
                   revents, dec, hup, nCalls, path, intr, served, physRead,
                   lastRead, fatal, scen>>

\* --- BufferedInput::next -------------------------------------------------

\* lines 79-81: a byte is resident.
NextBuffered ==
    /\ pc = "next"
    /\ has_buffered_data
    /\ ~NextU8Panics(buffer_index, buffer_size)
    /\ LET b == NextU8Val(buffer, buffer_index)
           c == Consume(SomeOk(b)) IN
         /\ buffer_index' = NextU8Index(buffer_index)
         /\ served' = Append(served, b)
         /\ pc' = c.pc
         /\ dec' = c.dec
         /\ item' = c.item
         /\ nItems' = ItemsAfter(c.pc)
         /\ fatal' = FatalAfter(c.pc, c.item)
         /\ scen' = IF c.pc = "idle" THEN ScenAfterReturn ELSE scen
    /\ UNCHANGED <<buffer, buffer_size, might_have_more_data, revents, tty,
                   sigPipe, hup, nCalls, path, intr, physRead, lastRead>>

\* lines 83-88: the buffer is exhausted; reset it and enter the read.
NextRefill ==
    /\ pc = "next"
    /\ ~has_buffered_data
    /\ buffer_size' = RefillReset.size
    /\ buffer_index' = RefillReset.index
    /\ might_have_more_data' = RefillReset.more
    /\ lastRead' = -1
    /\ intr' = 0
    /\ pc' = "read"
    /\ UNCHANGED <<buffer, revents, dec, tty, sigPipe, hup, item, nCalls,
                   nItems, path, served, physRead, fatal, scen>>

\* lines 28-33, 94-96: the read fails.
ReadErr(kind) ==
    /\ pc = "read"
    /\ IF Retry(kind)
       THEN /\ intr < MaxIntr
            /\ intr' = intr + 1
            /\ UNCHANGED <<pc, dec, item, nItems, fatal, scen>>
       ELSE LET c == Consume(SomeErr(kind)) IN
            /\ pc' = c.pc
            /\ dec' = c.dec
            /\ item' = c.item
            /\ nItems' = ItemsAfter(c.pc)
            /\ fatal' = FatalAfter(c.pc, c.item)
            /\ scen' = "off"
            /\ UNCHANGED intr
    /\ UNCHANGED <<buffer, buffer_size, buffer_index, might_have_more_data,
                   revents, tty, sigPipe, hup, nCalls, path, served, physRead,
                   lastRead>>

\* lines 25-27, 89-93: the read returns k bytes.
ReadOk(k) ==
    /\ pc = "read"
    /\ k \in ReadSizes
    /\ buffer' = Fill(buffer, Take(tty, k))
    /\ tty' = Drop(tty, k)
    /\ physRead' = physRead \o Take(tty, k)
    /\ buffer_size' = k
    /\ might_have_more_data' = LikelyMore(k)
    /\ lastRead' = k
    /\ IF RefillItem(k) = "SomeOk"
       THEN IF NextU8Panics(0, k)
            THEN /\ pc' = "panic"
                 /\ UNCHANGED <<buffer_index, served, dec, item, nItems,
                                fatal, scen>>
            ELSE LET b == NextU8Val(buffer', 0)
                     c == Consume(SomeOk(b)) IN
                 /\ buffer_index' = NextU8Index(0)
                 /\ served' = Append(served, b)
                 /\ pc' = c.pc
                 /\ dec' = c.dec
                 /\ item' = c.item
                 /\ nItems' = ItemsAfter(c.pc)
                 /\ fatal' = FatalAfter(c.pc, c.item)
                 /\ scen' = IF c.pc = "idle" THEN ScenAfterReturn ELSE scen
       ELSE LET c == Consume(None) IN
            /\ pc' = c.pc
            /\ dec' = c.dec
            /\ item' = c.item
            /\ nItems' = ItemsAfter(c.pc)
            /\ fatal' = FatalAfter(c.pc, c.item)
            /\ scen' = "off"
            /\ UNCHANGED <<buffer_index, served>>
    /\ UNCHANGED <<revents, sigPipe, hup, nCalls, path, intr>>

-----------------------------------------------------------------------------
NextOver(bytes, max) ==
    \/ \E b \in bytes : ByteArrives(b)
    \/ SigWinch(max)
    \/ Hangup
    \/ TuiNext
    \/ \E kind \in ErrKinds : PollErr(kind)
    \/ PollWake
    \/ Drain
    \/ NextBuffered
    \/ NextRefill
    \/ \E kind \in ErrKinds : ReadErr(kind)
    \/ \E k \in 0 .. N : ReadOk(k)

NextWith(max) == NextOver(Bytes, max)
Next == NextWith(MaxPending)

Spec == Init /\ [][Next]_vars

\* The same program with room for a burst of notifications longer than the
\* buffer the drain reads into.
MaxBurst == DRAIN_BUF_LEN + 1
NextBurst == NextWith(MaxBurst)
SpecBurst == Init /\ [][NextBurst]_vars

\* The same program typed at with a two-byte character (C3 82), which fits
\* into one refill of any capacity N >= 2.
NextAccent == NextOver(AccentBytes, MaxPending)
SpecAccent == Init /\ [][NextAccent]_vars

-----------------------------------------------------------------------------
\* Properties.

Unread == SubSeq(buffer, buffer_index + 1, buffer_size)
BothReady == revents[SIGWINCH_PIPE_INDEX] /\ revents[STDIN_INDEX]
Returned == pc = "idle" /\ nCalls > 0

\* C1: the bytes served by BufferedInput::next, followed by the bytes still
\* unread in the buffer, are exactly the bytes the physical reads returned, in
\* order: nothing lost, duplicated or reordered, also across refills.
C1_ByteFidelity == served \o Unread = physRead
\* More than N bytes were read, so at least two refills, and all were served.
C1_Witness == Len(physRead) > N /\ served = physRead

\* C2: after a poll that returned with both the resize socket and the
\* terminal ready, the call goes to the drain and returns WinChEvent; it never
\* enters the data path.
C2_ResizePriority ==
    (path = "woke" /\ BothReady) =>
        /\ pc \in {"drain", "idle"}
        /\ pc = "idle" => item.kind = "WinChEvent"
C2_Witness ==
    path = "woke" /\ BothReady /\ pc = "idle" /\ item.kind = "WinChEvent"

\* C3: the drain of one wake empties the resize socket whatever the number of
\* queued notifications, so no second WinChEvent follows without a new one.
C3_DrainCoalescesAll == [][pc = "drain" /\ pc' = "idle" => sigPipe' = 0]_vars

\* C4: might_have_more_data is false before the first refill and while a
\* refill has not succeeded, and after a refill it is true exactly when that
\* refill's read returned N bytes.
C4_LikelyMore ==
    /\ might_have_more_data <=> (lastRead = N)
    /\ physRead = <<>> => ~might_have_more_data
\* A full first refill followed by a short second one.
C4_Witness ==
    /\ Len(physRead) > N
    /\ lastRead \in 1 .. N - 1
    /\ ~might_have_more_data
    /\ Take(physRead, N) = Take(served, N)

\* C5: an interrupted poll or read changes nothing of the reader, the
\* environment or the items returned (so the run continues as if the call had
\* succeeded at once), and no returned item is an Interrupted error.
C5_RetryTransparent ==
    /\ [][intr' > intr => UNCHANGED observable]_vars
    /\ [](~(item.kind = "Err" /\ item.key = <<"Interrupted">>))
\* A call whose read or poll was interrupted and then returned a key.
C5_Witness == Returned /\ intr > 0 /\ item.kind = "KeyEvent"

\* C6: next_u8 is never entered with buffer_index >= buffer_size: the thread
\* never panics with "No data in buffer".
C6_NoPanic == pc # "panic"

\* C7: every call that has returned has yielded exactly one item, an event or
\* an error, and never None.
C7_OneItemNeverNone ==
    /\ item.kind # "None"
    /\ Returned =>
         /\ item.kind \in {"WinChEvent", "KeyEvent", "MouseEvent", "Unknown", "Err"}
         /\ nItems = nCalls
    /\ pc \in {"poll", "drain", "next", "read"} => nItems = nCalls - 1
\* A call whose refill failed has returned that error as its one item.
C7_Witness == Returned /\ item.kind = "Err" /\ nItems = nCalls /\ lastRead = -1

\* C8: the thread is inside poll only when the buffer holds no unread byte and
\* might_have_more_data is false; every byte read so far has been served and
\* the decoder is not in the middle of a sequence.
C8_WaitOnlyWhenDrained ==
    pc = "poll" =>
        /\ ~has_buffered_data
        /\ ~might_have_more_data
        /\ served = physRead
        /\ dec = <<>>
\* A wait entered after bytes were read and served.
C8_Witness == pc = "poll" /\ served # <<>> /\ served = physRead

\* C9: a call entered with might_have_buffered_data() true never waits in poll
\* and never blocks in a physical read for bytes that have not arrived.
C9_NoBlockWhenBuffered ==
    path = "buffered" =>
        /\ pc # "poll"
        /\ ~(pc = "read" /\ ReadSizes = {})

\* C10: from a wake at which a notification and the bytes of one key are both
\* pending, and as long as no I/O error occurs: the call returns WinChEvent,
\* a call returning WinChEvent reads, serves and drops none of the pending
\* bytes, and the first call that consumes bytes returns one KeyEvent made of
\* exactly those bytes.
C10_ResizeThenKey ==
    /\ scen = "armed" /\ pc = "idle" => item.kind = "WinChEvent"
    /\ scen = "armed" /\ pc \in {"idle", "poll", "drain"} =>
         /\ served = physRead
         /\ ~has_buffered_data
         /\ Len(tty) >= Len(KeySeq)
         /\ Take(tty, Len(KeySeq)) = KeySeq
    /\ scen = "done" => pc = "idle" /\ item = Item("KeyEvent", KeySeq)
C10_Witness == scen = "done" /\ item = Item("KeyEvent", KeySeq)

\* C11: the reader's indices stay ordered, buffer_index <= buffer_size <= N,
\* in every reachable state: during and after refills of any size, interrupted
\* reads and failed reads.
C11_IndexBounds ==
    /\ 0 <= buffer_index
    /\ buffer_index <= buffer_size
    /\ buffer_size <= N
\* A short refill after a full one, its byte consumed: index = size < N.
C11_Witness ==
    /\ Len(physRead) > N
    /\ buffer_size \in 1 .. N - 1
    /\ buffer_index = buffer_size

readerState == <<buffer, buffer_size, buffer_index, might_have_more_data,
                 physRead, served, dec>>

\* C12: with the decoder in the middle of a sequence whose last byte is
\* resident in the buffer, the pull of that byte issues no physical read and
\* completes the sequence: the same call returns the one KeyEvent made of the
\* sequence's bytes and the index has moved past its last byte, so none of
\* them is left to be decoded again.
C12_OneChunkOneEvent ==
    /\ [][(/\ pc = "next"
           /\ dec # <<>>
           /\ Unread # <<>>
           /\ Utf8Valid(Append(dec, Unread[1]))
           /\ served' # served)
          => /\ pc' = "idle"
             /\ item' = Item("KeyEvent", Append(dec, Unread[1]))
             /\ nItems' = nItems + 1
             /\ dec' = <<>>
             /\ buffer_index' = buffer_index + 1
             /\ UNCHANGED <<physRead, tty, buffer, buffer_size>>]_vars
    /\ [][(pc = "next" /\ dec # <<>> /\ Unread # <<>>)
          => (pc' # "read" /\ physRead' = physRead)]_vars
\* The two bytes of one character came in one read of two bytes; the first
\* call returned the character and nothing is left unread.
C12_Witness ==
    /\ Returned
    /\ nCalls = 1
    /\ nItems = 1
    /\ item = Item("KeyEvent", AccentSeq)
    /\ physRead = AccentSeq
    /\ lastRead = Len(AccentSeq)
    /\ Unread = <<>>

\* C13: the step at which poll fails with an error other than Interrupted
\* ends the call with that error as its item; it drains nothing from the
\* resize socket, reads nothing from the terminal and leaves the reader's
\* fields as they were.
C13_PollErrorReturned ==
    [][(path' = "pollerr" /\ path # "pollerr")
       => /\ pc = "poll"
          /\ pc' = "idle"
          /\ item' = Item("Err", <<"Other">>)
          /\ nItems' = nItems + 1
          /\ UNCHANGED <<sigPipe, tty, revents>>
          /\ UNCHANGED readerState]_vars
\* Poll failed with a notification and a byte both pending; both still are.
C13_Witness ==
    /\ Returned
    /\ path = "pollerr"
    /\ item = Item("Err", <<"Other">>)
    /\ sigPipe > 0
    /\ tty # <<>>

\* C14: a refill whose read fails (no byte count is recorded) ends the call
\* with an error item and no panic, with buffer_size = 0, buffer_index = 0 and
\* might_have_more_data false and nothing served; the call after such an
\* error goes to poll.
C14_ReadErrorLeavesEmpty ==
    /\ [][(pc = "read" /\ pc' # "read" /\ lastRead' = -1)
          => /\ pc' = "idle"
             /\ item'.kind = "Err"
             /\ nItems' = nItems + 1
             /\ buffer_size' = 0
             /\ buffer_index' = 0
             /\ ~might_have_more_data'
             /\ UNCHANGED <<served, physRead, tty>>]_vars
    /\ [][(pc = "idle" /\ item.kind = "Err" /\ lastRead = -1 /\ pc' # "idle")
          => pc' = "poll"]_vars
\* A refill failed after an earlier one had filled the buffer: the old bytes
\* are still in the array but the reader is empty and the next call waits.
C14_Witness ==
    /\ pc = "poll"
    /\ item.kind = "Err"
    /\ lastRead = -1
    /\ Len(served) = N
    /\ buffer_size = 0
    /\ buffer[1] # 0

\* C15: a call that takes the resize branch changes none of the reader's
\* fields and none of the byte histories from its entry to its return, and
\* its last step returns WinChEvent with the terminal's queue untouched.
C15_ResizeTouchesNoData ==
    [][(pc \in {"poll", "drain"} \/ (pc = "idle" /\ pc' = "poll"))
       => /\ UNCHANGED readerState
          /\ (pc = "drain" /\ pc' # "drain")
               => (pc' = "idle" /\ item'.kind = "WinChEvent" /\ tty' = tty)]_vars
\* WinChEvent returned while the terminal was ready too; its bytes still wait.
C15_Witness ==
    /\ Returned
    /\ item.kind = "WinChEvent"
    /\ revents[STDIN_INDEX]
    /\ sigPipe = 0
    /\ tty # <<>>
    /\ served = physRead

\* C16: with buffer_index < buffer_size, BufferedInput::next serves
\* buffer[buffer_index] and advances the index by one; no read is entered and
\* buffer, buffer_size, might_have_more_data and the terminal's queue seen by
\* the reader are unchanged.
C16_BufferedByteNoIO ==
    [][(pc = "next" /\ buffer_index < buffer_size)
       => /\ pc' # "read"
          /\ UNCHANGED <<buffer, buffer_size, might_have_more_data, physRead,
                         lastRead>>
          /\ served' # served =>
               /\ served' = Append(served, buffer[buffer_index + 1])
               /\ buffer_index' = buffer_index + 1
               /\ tty' = tty
          /\ served' = served => buffer_index' = buffer_index]_vars
\* A call entered with a byte resident returned it: second byte of a refill.
C16_Witness ==
    /\ Returned
    /\ path = "buffered"
    /\ item.kind = "KeyEvent"
    /\ Len(item.key) = 1
    /\ buffer_index >= 2
    /\ item.key[1] = buffer[buffer_index]

\* C17: a call made after a call that returned an error enters the per-call
\* algorithm as any other call does (decode if might_have_buffered_data(),
\* else poll) and returns nothing by itself.
C17_NoErrorLatch ==
    [][(pc = "idle" /\ item.kind = "Err" /\ nCalls' = nCalls + 1)
       => /\ pc' = IF might_have_buffered_data THEN "next" ELSE "poll"
          /\ item' = item
          /\ nItems' = nItems]_vars
\* A call after an error item has returned a key.
C17_Witness == Returned /\ fatal /\ item.kind = "KeyEvent"

\* C18: the thread is never suspended in a physical read, with no byte to
\* read, while a resize notification is queued (stated here for the read of
\* a lead byte, where the decoder is not waiting for the rest of a sequence).
C18_NotStuckInReadWithResize ==
    ~(pc = "read" /\ dec = <<>> /\ ReadSizes = {} /\ sigPipe > 0)

====
